---- MODULE Spec2Model ----
(***************************************************************************)
(* Model of package arcane (src/arcane.go): Sealer.Seal and Opener.Open    *)
(* over a symbolic ("perfect cryptography") model of the primitives the    *)
(* code calls: SHA-256 is collision free, an RSA PKCS#1 v1.5 ciphertext    *)
(* opens only under the key pair it was made for, a signature verifies     *)
(* only under the signer's public key and digest, AES-GCM opens only what  *)
(* AES-GCM sealed under the same key and nonce.  Byte strings keep their   *)
(* layout (lengths, prefixes, single bits), timestamps keep the second     *)
(* resolution of their RFC3339 text.                                       *)
(***************************************************************************)
EXTENDS Integers, Sequences, FiniteSets, TLC

VARIABLES
    now,      \* the reading of the clock source (var now), in ticks
    drawn,    \* how often rand.Reader has been read by Seal calls
    nseal,    \* Seal calls made
    sealed,   \* the Seal calls kept (the latest, or all of them): Sealer,
              \* payload, clock reading and error of each
    wire,     \* the Envelope in transit from Sealer to Opener, if any
    ntamper,  \* edits made to the Envelope in transit
    call,     \* the Open calls that have ended and whose results are kept
    procs     \* the Seal and Open calls that run concurrently, step by step

vars == <<now, drawn, nseal, sealed, wire, ntamper, call, procs>>

(*************************** bounds of the model ***************************)
\* Clock resolution: ticks per second (time.Time has 10^9).
TicksPerSecond == 3
\* The clock takes the ticks 0..MaxTick and the same window after 5 minutes.
MaxTick == 1
\* Longest plaintext, in bytes.
MaxPayloadLen == 2
\* Field replacements and byte edits applied to one Envelope in transit.
MaxTamper == 2
\* Seal calls in one behaviour.
MaxSeals == 1
\* Open calls made on one Envelope when their results are kept.
MaxOpens == 2
\* Seal calls made when all of them are kept.
MaxSealsKept == 2
\* Calls that run concurrently.
NProcs == 2

(**************************** program constants ****************************)
\* 5 * time.Minute, in seconds.
DefaultTTLSeconds == 300
\* make([]byte, 32)
KeySize == 32
\* gcm.NonceSize() of the standard GCM construction.
NonceSize == 12
\* Tag length of cipher.NewGCM.
TagSize == 16
\* Bits of one element of a []byte.
BitsPerByte == 8
\* Key lengths aes.NewCipher accepts.
AESKeySizes == {16, 24, 32}

(******************************* time & text *******************************)
\* A string or byte slice is a sequence of characters; a character is a data
\* byte or one block holding the RFC3339 text of a whole second.
DataByte(v) == [c |-> "b", v |-> v]
SecondText(s) == [c |-> "ts", v |-> s]

\* A layout that rounds up to the next whole second.
Format_RoundUp(t) == << SecondText((t + TicksPerSecond - 1) \div TicksPerSecond) >>

\* time.Time.Format(time.RFC3339): the layout has no fractional seconds, so
\* the text keeps the whole second only.
Format(t) == << SecondText(t \div TicksPerSecond) >>

\* time.Parse(time.RFC3339, s)
Parse(s) ==
    IF Len(s) = 1 /\ s[1].c = "ts"
    THEN [ok |-> TRUE, t |-> s[1].v * TicksPerSecond]
    ELSE [ok |-> FALSE, t |-> 0]

\* time.Time.After
After(t, u) == t > u

DefaultTTL == DefaultTTLSeconds * TicksPerSecond

\* Readings of the clock source.
Instants == (0 .. MaxTick) \cup (DefaultTTL .. (DefaultTTL + MaxTick))

\* Values of Sealer.TimeToLive: unset, below a second, a second, negative.
TTLs == {0, 1, TicksPerSecond, 0 - 1}

\* Plaintexts: empty up to MaxPayloadLen bytes.
Payloads == { [i \in 1 .. n |-> DataByte(i)] : n \in 0 .. MaxPayloadLen }

(******************************* certificates ******************************)
\* The certificates of the test data (cmd/generatecert): a CA, leaves it
\* issued (one with an ECDSA key), and a self signed leaf.
ExtKeyUsages == {"ClientAuth", "ServerAuth"}

\* NotAfter: time.Now().AddDate(3, 0, 0), past every clock reading.
Cert(raw, key, issuer, rsa, isCA) ==
    [Raw |-> raw, PublicKey |-> key, Issuer |-> issuer, IsRSA |-> rsa,
     IsCA |-> isCA, ExtKeyUsage |-> ExtKeyUsages,
     NotAfter |-> DefaultTTL + MaxTick]

caCert == Cert("ca", "kCA", "ca", TRUE, TRUE)
signedCert1 == Cert("signed1", "k1", "ca", TRUE, FALSE)
signedCert2 == Cert("signed2", "k2", "ca", TRUE, FALSE)
signedCert3 == Cert("signed3", "k3", "ca", TRUE, FALSE)
selfSignedCert == Cert("selfSigned", "kSelf", "selfSigned", TRUE, FALSE)
ecCert == Cert("ec", "kEC", "ca", FALSE, FALSE)
\* A certificate the CA issued to signed3 earlier: its validity ends while
\* the clock is still in its first window.
signedCert3Old == [signedCert3 EXCEPT !.Raw = "signed3old", !.NotAfter = MaxTick]
NoCert == Cert("", "", "", FALSE, FALSE)

Certificates ==
    {caCert, signedCert1, signedCert2, signedCert3, selfSignedCert, ecCert,
     signedCert3Old}

\* x509.ParseCertificate: bytes that are some certificate's encoding parse to
\* that certificate, any other bytes fail.
ParseCertificate(der) ==
    IF \E c \in Certificates : c.Raw = der
    THEN [ok |-> TRUE, cert |-> CHOOSE c \in Certificates : c.Raw = der]
    ELSE [ok |-> FALSE, cert |-> NoCert]

emptyCertPool == {}
caCertPool == {"ca"}
leafCertPool == {"signed1", "signed2", "signed3", "selfSigned"}
CertPools == {emptyCertPool, caCertPool, leafCertPool}

\* Verify that trusts a certificate for the first call only.
Verify_FirstUseOnly(cert, pool) ==
    /\ \/ cert.Raw \in pool
       \/ \E p \in Certificates : /\ p.Raw = cert.Issuer
                                  /\ p.Raw \in pool
                                  /\ p.IsCA
    /\ cert.ExtKeyUsage \cap {"ClientAuth", "ServerAuth"} # {}
    /\ ~ After(now, cert.NotAfter)
    /\ Len(call) = 0

\* Verify that does not look at the pool.
Verify_AnyPool(cert, pool) ==
    /\ cert.ExtKeyUsage \cap {"ClientAuth", "ServerAuth"} # {}
    /\ ~ After(now, cert.NotAfter)

\* x509.Certificate.Verify at time t with Roots = pool and KeyUsages = client
\* or server authentication: the certificate is in the pool itself, or its
\* issuer is a CA in the pool, it allows one of the usages asked for, and t is
\* not after the end of its validity.
VerifyAt(cert, pool, t) ==
    /\ \/ cert.Raw \in pool
       \/ \E p \in Certificates : /\ p.Raw = cert.Issuer
                                  /\ p.Raw \in pool
                                  /\ p.IsCA
    /\ cert.ExtKeyUsage \cap {"ClientAuth", "ServerAuth"} # {}
    /\ ~ After(t, cert.NotAfter)

\* Open leaves VerifyOptions.CurrentTime unset, so Verify takes time.Now(),
\* which is what the clock source reads.
Verify(cert, pool) == VerifyAt(cert, pool, now)

(******************************* primitives ********************************)
\* A digest over the three parts with their lengths: parts cut at other
\* places give another digest.
Sha256_Framed(created, expires, payload) == << created, expires, payload >>
\* sha256 over the bytes written to it, in order: collision free.
Sha256(created, expires, payload) == created \o expires \o payload

\* rsa.SignPKCS1v15 / rsa.VerifyPKCS1v15
SignPKCS1v15(priv, digest) == [signer |-> priv, digest |-> digest]
BadSignature == [signer |-> "", digest |-> << >>]
VerifyPKCS1v15(pub, digest, sig) == sig.signer = pub /\ sig.digest = digest

\* A key that is the same whatever the random source returns.
SymKey_Fixed(id, len) == [id |-> 0, len |-> len]
\* A symmetric key: id names its random bytes, len is its length.
SymKey(id, len) == [id |-> id, len |-> len]
NoKey == SymKey(0, 0)

\* rsa.EncryptPKCS1v15 (r: the random padding) / rsa.DecryptPKCS1v15
EncryptPKCS1v15(r, pub, m) == [pub |-> pub, m |-> m, r |-> r]
BadEncryptedKey == [pub |-> "", m |-> NoKey, r |-> 0]
\* Decryption that opens a ciphertext made for any key.
DecryptPKCS1v15_AnyKey(priv, c) ==
    IF c.pub # "" THEN [ok |-> TRUE, m |-> c.m] ELSE [ok |-> FALSE, m |-> NoKey]
DecryptPKCS1v15(priv, c) ==
    IF c.pub = priv THEN [ok |-> TRUE, m |-> c.m] ELSE [ok |-> FALSE, m |-> NoKey]

\* One byte of Payload: byte i of what box produced, with the bits in x flipped.
Cell(k, box, i) == [k |-> k, box |-> box, i |-> i, x |-> {}]
Box(key, nonce, pt) == [key |-> key, nonce |-> nonce, pt |-> pt]

\* io.ReadFull(rand.Reader, nonce): the bytes of random draw id.
RandBytes(id, n) == [i \in 1 .. n |-> Cell("rand", Box(NoKey, id, << >>), i)]

\* gcm.Seal(nonce, nonce, payload, nil): nonce || ciphertext || tag.
GcmSeal(key, nonceId, pt) ==
    RandBytes(nonceId, NonceSize)
        \o [i \in 1 .. (Len(pt) + TagSize) |-> Cell("gcm", Box(key, nonceId, pt), i)]

\* Decryption without authentication: flipped bits go unnoticed.
GcmOpen_Unauthenticated(key, nonce, ciphertext) ==
    LET n == Len(ciphertext)
        box == ciphertext[n].box
    IN  IF n >= TagSize /\ ciphertext[n].k = "gcm" /\ box.key = key
        THEN [ok |-> TRUE, pt |-> box.pt]
        ELSE [ok |-> FALSE, pt |-> << >>]

\* Decryption that does not depend on the key.
GcmOpen_AnyKey(key, nonce, ciphertext) ==
    LET n == Len(ciphertext)
        box == ciphertext[n].box
        made == GcmSeal(box.key, box.nonce, box.pt)
    IN  IF /\ n >= TagSize
           /\ ciphertext[n].k = "gcm"
           /\ nonce = SubSeq(made, 1, NonceSize)
           /\ ciphertext = SubSeq(made, NonceSize + 1, Len(made))
        THEN [ok |-> TRUE, pt |-> box.pt]
        ELSE [ok |-> FALSE, pt |-> << >>]

\* gcm.Open(nil, nonce, ciphertext, nil): opens exactly what gcm.Seal made
\* under this key and this nonce.
GcmOpen(key, nonce, ciphertext) ==
    LET n == Len(ciphertext)
        box == ciphertext[n].box
        made == GcmSeal(box.key, box.nonce, box.pt)
    IN  IF /\ n >= TagSize
           /\ ciphertext[n].k = "gcm"
           /\ box.key = key
           /\ nonce = SubSeq(made, 1, NonceSize)
           /\ ciphertext = SubSeq(made, NonceSize + 1, Len(made))
        THEN [ok |-> TRUE, pt |-> box.pt]
        ELSE [ok |-> FALSE, pt |-> << >>]

(********************************* Sealer **********************************)
\* The Sealer configurations of TestSealerAndOpener (CA signed sender, self
\* signed sender, sender sealing to itself), and a receiver certificate whose
\* key is not RSA; each with every TimeToLive.
Sealers ==
    { [PrivateKey |-> c[1], Cert |-> c[2], ReceiverCert |-> c[3], TimeToLive |-> ttl] :
        c \in { <<"k1", signedCert1, signedCert2>>,
                <<"kSelf", selfSignedCert, signedCert2>>,
                <<"k1", signedCert1, signedCert1>>,
                <<"k1", signedCert1, ecCert>> },
        ttl \in TTLs }

Envelope(cert, sig, ekey, created, expires, payload) ==
    [Header |-> [SealerCert |-> cert, Signature |-> sig, EncryptedKey |-> ekey,
                 Created |-> created, Expires |-> expires],
     Payload |-> payload]

\* The library calls of Seal that return an error Seal passes on: signing,
\* the two reads of the random source, the encryption of the key.
SealFaults == {"none", "rsa.SignPKCS1v15", "rand.Read", "io.ReadFull",
               "rsa.EncryptPKCS1v15"}

\* Seal that returns what it has filled in so far along with the error of the
\* key encryption.
SealFaulty_Partial(s, payload, t, d, fault) ==
    LET createdStr == Format(t)
        expiresStr == IF s.TimeToLive # 0
                      THEN Format(t + s.TimeToLive)
                      ELSE Format(t + DefaultTTL)
        sign == SignPKCS1v15(s.PrivateKey, Sha256(createdStr, expiresStr, payload))
        encryptionKey == SymKey(d + 2, KeySize)
        encryptedPayload == GcmSeal(encryptionKey, d + 3, payload)
    IN  IF fault = "rsa.SignPKCS1v15"
        THEN [env |-> << >>, err |-> fault, draws |-> 1]
        ELSE IF fault = "rand.Read"
        THEN [env |-> << >>, err |-> fault, draws |-> 2]
        ELSE IF fault = "io.ReadFull"
        THEN [env |-> << >>, err |-> fault, draws |-> 3]
        ELSE IF ~ s.ReceiverCert.IsRSA
        THEN [env |-> << >>, err |-> "receiver public key was not an rsa key",
              draws |-> 3]
        ELSE IF fault = "rsa.EncryptPKCS1v15"
        THEN [env |-> << Envelope(s.Cert.Raw, sign, BadEncryptedKey,
                                  createdStr, expiresStr, encryptedPayload) >>,
              err |-> fault, draws |-> 4]
        ELSE [env |-> << Envelope(s.Cert.Raw, sign,
                                  EncryptPKCS1v15(d + 4, s.ReceiverCert.PublicKey,
                                                  encryptionKey),
                                  createdStr, expiresStr, encryptedPayload) >>,
              err |-> "nil", draws |-> 4]

\* Sealer.Seal at clock reading t, with kid, nid and pid naming the random
\* bytes it reads for the key, the nonce and the RSA padding, and with the
\* library call named by fault (if any) returning an error.
SealDrawn(s, payload, t, kid, nid, pid, fault) ==
    LET created == t
        createdStr == Format(created)
        expiresStr == IF s.TimeToLive # 0
                      THEN Format(created + s.TimeToLive)
                      ELSE Format(created + DefaultTTL)
        sign == SignPKCS1v15(s.PrivateKey, Sha256(createdStr, expiresStr, payload))
        encryptionKey == SymKey(kid, KeySize)
        encryptedPayload == GcmSeal(encryptionKey, nid, payload)
    IN  IF fault = "rsa.SignPKCS1v15"
        THEN [env |-> << >>, err |-> fault, draws |-> 1]
        ELSE IF fault = "rand.Read"
        THEN [env |-> << >>, err |-> fault, draws |-> 2]
        ELSE IF fault = "io.ReadFull"
        THEN [env |-> << >>, err |-> fault, draws |-> 3]
        ELSE IF ~ s.ReceiverCert.IsRSA
        THEN [env |-> << >>, err |-> "receiver public key was not an rsa key",
              draws |-> 3]
        ELSE IF fault = "rsa.EncryptPKCS1v15"
        THEN [env |-> << >>, err |-> fault, draws |-> 4]
        ELSE [env |-> << Envelope(s.Cert.Raw, sign,
                                  EncryptPKCS1v15(pid, s.ReceiverCert.PublicKey,
                                                  encryptionKey),
                                  createdStr, expiresStr, encryptedPayload) >>,
              err |-> "nil", draws |-> 4]

\* Seal that encrypts the key with a fixed padding and so takes random bytes
\* three times only.
SealFaulty_FixedPadding(s, payload, t, d, fault) ==
    LET r == SealDrawn(s, payload, t, d + 2, d + 3, 0, fault)
    IN  [r EXCEPT !.draws = IF r.err = "nil" THEN 3 ELSE @]

\* The same, the random source having been read d times before the call: the
\* signature takes the next read, then the key, the nonce and the padding.
SealFaulty(s, payload, t, d, fault) ==
    SealDrawn(s, payload, t, d + 2, d + 3, d + 4, fault)

\* Sealer.Seal when every library call succeeds.
Seal(s, payload, t, d) == SealFaulty(s, payload, t, d, "none")

(********************************* Opener **********************************)
Openers == [PrivateKey : {"k1", "k2"}, CertPool : CertPools]

Stages == << "expiry-check", "cert-parse", "trust-check", "key-decrypt",
             "payload-decrypt", "signature-verify" >>

\* What an Open call returns (payload: << >> is nil, << p >> is the slice p),
\* with the stages it ran; err "panic" is a run-time panic, not a return.
Return(payload, err, n) == [payload |-> payload, err |-> err, stages |-> SubSeq(Stages, 1, n)]

\* Open that hands back the decrypted bytes along with a signature error.
OpenSignature_LeakPlaintext(message, sealerCert, plaintext) ==
    IF ~ sealerCert.IsRSA
    THEN Return(<< >>, "public key was not an rsa key", 6)
    ELSE IF ~ VerifyPKCS1v15(sealerCert.PublicKey,
                             Sha256(message.Header.Created, message.Header.Expires,
                                    plaintext),
                             message.Header.Signature)
    THEN Return(<< plaintext >>, "ErrInvalidSignature", 6)
    ELSE Return(<< plaintext >>, "nil", 6)

\* Open that does not verify the signature.
OpenSignature_NoVerify(message, sealerCert, plaintext) ==
    IF ~ sealerCert.IsRSA
    THEN Return(<< >>, "public key was not an rsa key", 6)
    ELSE Return(<< plaintext >>, "nil", 6)

\* Open of a scheme whose signature names the receiver: an EncryptedKey that
\* no Seal call made (its padding is not from rand.Reader) does not verify.
OpenSignature_ReceiverBound(message, sealerCert, plaintext) ==
    IF ~ sealerCert.IsRSA
    THEN Return(<< >>, "public key was not an rsa key", 6)
    ELSE IF \/ message.Header.EncryptedKey.r = 0
            \/ ~ VerifyPKCS1v15(sealerCert.PublicKey,
                                Sha256(message.Header.Created, message.Header.Expires,
                                       plaintext),
                                message.Header.Signature)
    THEN Return(<< >>, "ErrInvalidSignature", 6)
    ELSE Return(<< plaintext >>, "nil", 6)

OpenSignature(message, sealerCert, plaintext) ==
    IF ~ sealerCert.IsRSA
    THEN Return(<< >>, "public key was not an rsa key", 6)
    ELSE IF ~ VerifyPKCS1v15(sealerCert.PublicKey,
                             Sha256(message.Header.Created, message.Header.Expires,
                                    plaintext),
                             message.Header.Signature)
    THEN Return(<< >>, "ErrInvalidSignature", 6)
    ELSE Return(<< plaintext >>, "nil", 6)

\* Open that takes the first 16 bytes of Payload (the length of a tag) for
\* the nonce.
OpenPayload_SplitAtTagSize(message, sealerCert, decryptedKey) ==
    IF decryptedKey.len \notin AESKeySizes
    THEN Return(<< >>, "aes.KeySizeError", 5)
    ELSE IF Len(message.Payload) < TagSize
    THEN Return(<< >>, "panic", 5)
    ELSE LET nonce == SubSeq(message.Payload, 1, TagSize)
             ciphertext == SubSeq(message.Payload, TagSize + 1, Len(message.Payload))
             opened == GcmOpen(decryptedKey, nonce, ciphertext)
         IN  IF ~ opened.ok
             THEN Return(<< >>, "ErrUnableToDecryptPayload", 5)
             ELSE OpenSignature(message, sealerCert, opened.pt)

OpenPayload(message, sealerCert, decryptedKey) ==
    IF decryptedKey.len \notin AESKeySizes
    THEN Return(<< >>, "aes.KeySizeError", 5)
    ELSE IF Len(message.Payload) < NonceSize
    THEN Return(<< >>, "panic", 5)
    ELSE LET nonce == SubSeq(message.Payload, 1, NonceSize)
             ciphertext == SubSeq(message.Payload, NonceSize + 1, Len(message.Payload))
             opened == GcmOpen(decryptedKey, nonce, ciphertext)
         IN  IF ~ opened.ok
             THEN Return(<< >>, "ErrUnableToDecryptPayload", 5)
             ELSE OpenSignature(message, sealerCert, opened.pt)

OpenKey(o, message, sealerCert) ==
    LET decryptedKey == DecryptPKCS1v15(o.PrivateKey, message.Header.EncryptedKey)
    IN  IF ~ decryptedKey.ok
        THEN Return(<< >>, "ErrUnableToGetEncryptionKey", 4)
        ELSE OpenPayload(message, sealerCert, decryptedKey.m)

\* Open that decrypts the key before it verifies the certificate.
OpenCert_KeyBeforeTrust(o, message) ==
    LET sealerCert == ParseCertificate(message.Header.SealerCert)
        decryptedKey == DecryptPKCS1v15(o.PrivateKey, message.Header.EncryptedKey)
    IN  IF ~ sealerCert.ok
        THEN Return(<< >>, "ErrUnableToParseSealerCert", 2)
        ELSE IF ~ decryptedKey.ok
        THEN Return(<< >>, "ErrUnableToGetEncryptionKey", 4)
        ELSE IF ~ Verify(sealerCert.cert, o.CertPool)
        THEN Return(<< >>, "ErrUntrustedCert", 4)
        ELSE OpenPayload(message, sealerCert.cert, decryptedKey.m)

OpenCert(o, message) ==
    LET sealerCert == ParseCertificate(message.Header.SealerCert)
    IN  IF ~ sealerCert.ok
        THEN Return(<< >>, "ErrUnableToParseSealerCert", 2)
        ELSE IF ~ Verify(sealerCert.cert, o.CertPool)
        THEN Return(<< >>, "ErrUntrustedCert", 3)
        ELSE OpenKey(o, message, sealerCert.cert)

\* Open that checks the certificate before the expiry.
Open_CertFirst(o, message, t) ==
    LET expires == Parse(message.Header.Expires)
        sealerCert == ParseCertificate(message.Header.SealerCert)
    IN  IF ~ sealerCert.ok
        THEN Return(<< >>, "ErrUnableToParseSealerCert", 1)
        ELSE IF ~ Verify(sealerCert.cert, o.CertPool)
        THEN Return(<< >>, "ErrUntrustedCert", 2)
        ELSE IF ~ expires.ok
        THEN Return(<< >>, "time.ParseError", 3)
        ELSE IF After(t, expires.t)
        THEN Return(<< >>, "ErrMessageExpired", 3)
        ELSE OpenKey(o, message, sealerCert.cert)

\* Open that remembers it has accepted an Envelope and refuses the next.
Open_Once(o, message, t) ==
    LET expires == Parse(message.Header.Expires)
    IN  IF ~ expires.ok
        THEN Return(<< >>, "time.ParseError", 1)
        ELSE IF After(t, expires.t) \/ (Len(call) > 0 /\ call[1].res.err = "nil")
        THEN Return(<< >>, "ErrMessageExpired", 1)
        ELSE OpenCert(o, message)

\* Open that takes Created for the time of sealing: it must parse and must
\* not be after the clock.
Open_CreatedChecked(o, message, t) ==
    LET expires == Parse(message.Header.Expires)
        created == Parse(message.Header.Created)
    IN  IF ~ expires.ok \/ ~ created.ok
        THEN Return(<< >>, "time.ParseError", 1)
        ELSE IF After(t, expires.t) \/ After(created.t, t)
        THEN Return(<< >>, "ErrMessageExpired", 1)
        ELSE OpenCert(o, message)

\* Open that rejects an Envelope from the instant of its Expires on.
Open_ExpiredAtDeadline(o, message, t) ==
    LET expires == Parse(message.Header.Expires)
    IN  IF ~ expires.ok
        THEN Return(<< >>, "time.ParseError", 1)
        ELSE IF After(t, expires.t) \/ t = expires.t
        THEN Return(<< >>, "ErrMessageExpired", 1)
        ELSE OpenCert(o, message)

\* Opener.Open at clock reading t.
Open(o, message, t) ==
    LET expires == Parse(message.Header.Expires)
    IN  IF ~ expires.ok
        THEN Return(<< >>, "time.ParseError", 1)
        ELSE IF After(t, expires.t)
        THEN Return(<< >>, "ErrMessageExpired", 1)
        ELSE OpenCert(o, message)

(********************************* actions *********************************)
Idle == Len(call) = 0

Init ==
    /\ now \in 0 .. MaxTick
    /\ drawn = 0
    /\ nseal = 0
    /\ sealed = << >>
    /\ wire = << >>
    /\ ntamper = 0
    /\ call = << >>
    /\ procs = << >>

\* The clock source moves on.
Tick ==
    /\ Idle
    /\ \E t \in Instants : t > now /\ now' = t
    /\ UNCHANGED <<drawn, nseal, sealed, wire, ntamper, call, procs>>

\* A Sealer out of S seals a payload; the Envelope, if any, goes on the wire.
SealBy(S) ==
    /\ Idle
    /\ nseal < MaxSeals
    /\ now <= MaxTick
    /\ \E s \in S, p \in Payloads :
         LET r == Seal(s, p, now, drawn)
         IN  /\ sealed' = << [sealer |-> s, payload |-> p, at |-> now,
                             d |-> drawn, err |-> r.err] >>
             /\ wire' = r.env
             /\ drawn' = drawn + r.draws
    /\ nseal' = nseal + 1
    /\ ntamper' = 0
    /\ UNCHANGED <<now, call, procs>>

SealCall == SealBy(Sealers)

\* An Opener opens the Envelope on the wire.
OpenCall ==
    /\ Idle
    /\ Len(wire) = 1
    /\ \E o \in Openers :
         call' = << [opener |-> o, at |-> now, res |-> Open(o, wire[1], now)] >>
    /\ UNCHANGED <<now, drawn, nseal, sealed, wire, ntamper, procs>>

\* The call's result has been taken.
OpenReturn ==
    /\ ~ Idle
    /\ call' = << >>
    /\ UNCHANGED <<now, drawn, nseal, sealed, wire, ntamper, procs>>

(***************** the Envelope is edited while in transit ******************)
\* Opener.Open takes whatever *Envelope it is handed: every field is the
\* transport's (an attacker's) to choose.
CanTamper == Idle /\ Len(wire) = 1 /\ ntamper < MaxTamper

SetHeader(field, value) ==
    /\ CanTamper
    /\ value # wire[1].Header[field]
    /\ wire' = << [wire[1] EXCEPT !.Header[field] = value] >>
    /\ ntamper' = ntamper + 1
    /\ UNCHANGED <<now, drawn, nseal, sealed, call, procs>>

\* Another certificate's encoding, or bytes that are no certificate.
SubstituteCert ==
    \E der \in {c.Raw : c \in Certificates} \cup {"garbage"} :
        SetHeader("SealerCert", der)

\* Junk, or a signature another key holder makes over the signed bytes.
ReplaceSignature ==
    /\ CanTamper
    /\ \E sig \in {BadSignature,
                 SignPKCS1v15("k3", wire[1].Header.Signature.digest)} :
        SetHeader("Signature", sig)

\* Junk, or another symmetric key (of the right or of a wrong length)
\* encrypted to the same receiver.
ReplaceEncryptedKey ==
    /\ CanTamper
    /\ \E ek \in {BadEncryptedKey}
               \cup {EncryptPKCS1v15(0, wire[1].Header.EncryptedKey.pub, SymKey(0, len)) :
                        len \in {KeySize, KeySize - 1}} :
        SetHeader("EncryptedKey", ek)

\* Text that is no timestamp, the text of a later second, or the signed text
\* Created ++ Expires split at another place.
SetExpires ==
    /\ CanTamper
    /\ \E text \in {<< >>, Format(2 * DefaultTTL),
                    wire[1].Header.Created \o wire[1].Header.Expires} :
        SetHeader("Expires", text)

SetCreated ==
    /\ CanTamper
    /\ \E text \in {<< >>, Format(2 * DefaultTTL),
                    wire[1].Header.Created \o wire[1].Header.Expires} :
        SetHeader("Created", text)

\* A byte edit of Payload is the last edit of an Envelope.
SetPayload(payload) ==
    /\ CanTamper
    /\ ntamper = 0
    /\ wire' = << [wire[1] EXCEPT !.Payload = payload] >>
    /\ ntamper' = MaxTamper
    /\ UNCHANGED <<now, drawn, nseal, sealed, call, procs>>

\* payload with bit b of byte i flipped.
FlipIn(payload, i, b) ==
    [payload EXCEPT ![i].x = IF b \in @ THEN @ \ {b} ELSE @ \cup {b}]

FlipBit ==
    /\ CanTamper
    /\ \E i \in 1 .. Len(wire[1].Payload), b \in 0 .. (BitsPerByte - 1) :
        SetPayload(FlipIn(wire[1].Payload, i, b))

Truncate ==
    /\ CanTamper
    /\ \E n \in 0 .. (Len(wire[1].Payload) - 1) :
        SetPayload(SubSeq(wire[1].Payload, 1, n))

(************ an Envelope built without Seal, from a known plaintext ***********)
\* The Envelope a party builds with random bytes of its own (key, nonce and
\* padding 0, which no Seal call reads): plaintext encrypted under its key,
\* the key encrypted for the holder of pub.
Forged(cert, sig, pub, created, expires, plaintext) ==
    Envelope(cert, sig, EncryptPKCS1v15(0, pub, SymKey(0, KeySize)),
             created, expires,
             GcmSeal(SymKey(0, KeySize), 0, plaintext))

\* A party that has learnt the plaintext of the sealed Envelope (its receiver,
\* for one) encrypts anew for a receiver of its choice and keeps SealerCert and
\* Signature: either every signed byte where it was, or the signed bytes
\* Created ++ Expires ++ plaintext cut at other places (Created empty, Expires
\* the text that was Created, the plaintext grown by the text that was Expires).
Reencrypt ==
    /\ CanTamper
    /\ ntamper = 0
    /\ Len(sealed) = 1
    /\ \E pub \in {"k1", "k2"}, shift \in BOOLEAN :
         LET h == wire[1].Header
             p == sealed[1].payload
         IN  wire' = << IF shift
                        THEN Forged(h.SealerCert, h.Signature, pub,
                                    << >>, h.Created, h.Expires \o p)
                        ELSE Forged(h.SealerCert, h.Signature, pub,
                                    h.Created, h.Expires, p) >>
    /\ ntamper' = MaxTamper
    /\ UNCHANGED <<now, drawn, nseal, sealed, call, procs>>

\* A holder of a certificate the CA issued (signed3) builds an Envelope with
\* code of its own: it signs a Created that is no timestamp, or one that is
\* later than the clock and than Expires.
Craft ==
    /\ CanTamper
    /\ ntamper = 0
    /\ Len(sealed) = 1
    /\ \E pub \in {"k1", "k2"}, created \in {<< >>, Format(2 * DefaultTTL)} :
         LET expires == Format(DefaultTTL)
             p == sealed[1].payload
         IN  wire' = << Forged(signedCert3.Raw,
                               SignPKCS1v15("k3", Sha256(created, expires, p)),
                               pub, created, expires, p) >>
    /\ ntamper' = MaxTamper
    /\ UNCHANGED <<now, drawn, nseal, sealed, call, procs>>

Tamper ==
    \/ SubstituteCert
    \/ ReplaceSignature
    \/ ReplaceEncryptedKey
    \/ SetExpires
    \/ SetCreated
    \/ FlipBit
    \/ Truncate
    \/ Reencrypt
    \/ Craft

Next == Tick \/ SealCall \/ Tamper \/ OpenCall \/ OpenReturn

Spec == Init /\ [][Next]_vars

(************* one Envelope opened repeatedly, the results kept *************)
\* A Sealer whose certificate is near the end of its validity.
ShortLivedSealers ==
    { [PrivateKey |-> "k3", Cert |-> signedCert3Old, ReceiverCert |-> signedCert2,
       TimeToLive |-> 0] }

SealShortLived == SealBy(ShortLivedSealers)

\* One edit of the Header of an Envelope as sealed.
HeaderEdit ==
    /\ ntamper = 0
    /\ \/ SubstituteCert
       \/ ReplaceSignature
       \/ ReplaceEncryptedKey
       \/ SetExpires
       \/ SetCreated

\* The clock source moves on between two Open calls.
Later ==
    /\ Len(call) \in 1 .. (MaxOpens - 1)
    /\ \E t \in Instants : t > now /\ now' = t
    /\ UNCHANGED <<drawn, nseal, sealed, wire, ntamper, call, procs>>

\* The Opener of the first call opens the same Envelope once more.
OpenAgain ==
    /\ Len(call) \in 1 .. (MaxOpens - 1)
    /\ call' = Append(call, [opener |-> call[1].opener, at |-> now,
                             res |-> Open(call[1].opener, wire[1], now)])
    /\ UNCHANGED <<now, drawn, nseal, sealed, wire, ntamper, procs>>

NextReplay ==
    Tick \/ SealCall \/ SealShortLived \/ HeaderEdit \/ OpenCall \/ Later \/ OpenAgain

SpecReplay == Init /\ [][NextReplay]_vars

(************************* the state, for the claims ************************)
\* The latest Seal call; it has returned an Envelope.
LastSeal == sealed[1]
Sealed == Len(sealed) = 1 /\ LastSeal.err = "nil"
\* The Envelope that Seal call returned.
Original ==
    Seal(LastSeal.sealer, LastSeal.payload, LastSeal.at, LastSeal.d).env[1]
\* An Open call has ended; Msg is the Envelope it was given.
Called == Len(call) = 1
Msg == wire[1]
Res == call[1].res
OpenerOf == call[1].opener
Untouched == Sealed /\ Msg = Original

\* The Opener holds the private key of the Sealer's receiver certificate.
IntendedReceiver == OpenerOf.PrivateKey = LastSeal.sealer.ReceiverCert.PublicKey
\* The Opener's pool holds the root that issued the Sealer's certificate.
TrustsSealer == LastSeal.sealer.Cert.Issuer \in OpenerOf.CertPool

\* The stages of the call, each decided on its own from the Envelope, the
\* Opener and the clock reading.
ExpiresOf == Parse(Msg.Header.Expires)
Unexpired == ExpiresOf.ok /\ ~ After(call[1].at, ExpiresOf.t)
CertOf == ParseCertificate(Msg.Header.SealerCert)
Trusted == CertOf.ok /\ Verify(CertOf.cert, OpenerOf.CertPool)
KeyOf == DecryptPKCS1v15(OpenerOf.PrivateKey, Msg.Header.EncryptedKey)
PlainOf ==
    GcmOpen(KeyOf.m, SubSeq(Msg.Payload, 1, NonceSize),
            SubSeq(Msg.Payload, NonceSize + 1, Len(Msg.Payload)))
Decrypts ==
    /\ KeyOf.ok
    /\ KeyOf.m.len \in AESKeySizes
    /\ Len(Msg.Payload) >= NonceSize
    /\ PlainOf.ok
SignatureOver(plaintext) ==
    /\ CertOf.cert.IsRSA
    /\ VerifyPKCS1v15(CertOf.cert.PublicKey,
                      Sha256(Msg.Header.Created, Msg.Header.Expires, plaintext),
                      Msg.Header.Signature)

StagePasses(k) ==
    CASE k = 1 -> Unexpired
      [] k = 2 -> CertOf.ok
      [] k = 3 -> Trusted
      [] k = 4 -> KeyOf.ok
      [] k = 5 -> Decrypts
      [] k = 6 -> Decrypts /\ CertOf.ok /\ SignatureOver(PlainOf.pt)
      [] OTHER -> FALSE

\* The stage an outcome comes from; 7 is success.
StageOf(err) ==
    CASE err \in {"time.ParseError", "ErrMessageExpired"} -> 1
      [] err = "ErrUnableToParseSealerCert" -> 2
      [] err = "ErrUntrustedCert" -> 3
      [] err = "ErrUnableToGetEncryptionKey" -> 4
      [] err \in {"aes.KeySizeError", "panic", "ErrUnableToDecryptPayload"} -> 5
      [] err \in {"public key was not an rsa key", "ErrInvalidSignature"} -> 6
      [] err = "nil" -> 7
      [] OTHER -> 0

EarliestFailing ==
    IF \E k \in 1 .. 6 : ~ StagePasses(k)
    THEN CHOOSE k \in 1 .. 6 : ~ StagePasses(k) /\ \A j \in 1 .. (k - 1) : StagePasses(j)
    ELSE 7
(********************************* claims **********************************)
NilPayload == Res.payload = << >>
Min(a, b) == IF a < b THEN a ELSE b

\* C1 (as the claim states it, read in its narrowest sense: the Envelope is
\* opened at the very clock reading it was sealed at, and TimeToLive is not
\* negative): an Envelope as Seal returned it, opened by the Opener that holds
\* the receiver's private key and whose pool holds the sealer's issuing root,
\* opens, and the payload returned is the payload sealed.
C1_RoundTrip ==
    (/\ Called /\ Untouched
     /\ IntendedReceiver /\ TrustsSealer
     /\ LastSeal.sealer.TimeToLive >= 0
     /\ call[1].at = LastSeal.at)
        => (Res.err = "nil" /\ Res.payload = << LastSeal.payload >>)

\* C2: whenever Expires parses and the clock reading of the Open call is after
\* it, the call fails with ErrMessageExpired, whatever the other fields are.
C2_ExpiryEnforcement ==
    (Called /\ ExpiresOf.ok /\ After(call[1].at, ExpiresOf.t))
        => (Res.err = "ErrMessageExpired")

\* An expired Envelope, every field as sealed, opened by its receiver.
C2_Witness ==
    /\ Called /\ Untouched /\ IntendedReceiver /\ TrustsSealer
    /\ call[1].at > LastSeal.at
    /\ After(call[1].at, ExpiresOf.t)
    /\ Res.err = "ErrMessageExpired"

\* C3: the outcome of an Open call comes from the earliest stage that fails,
\* in the order expiry-check, cert-parse, trust-check, key-decrypt,
\* payload-decrypt, signature-verify; the call runs the stages up to that one,
\* in order and once each, and succeeds only when all six pass.
C3_StageOrder ==
    Called =>
        /\ StageOf(Res.err) = EarliestFailing
        /\ Res.stages = SubSeq(Stages, 1, Min(EarliestFailing, 6))
        /\ (Res.err = "nil" <=> \A k \in 1 .. 6 : StagePasses(k))

\* An Envelope that fails the trust check, the key decryption and the payload
\* decryption: the trust check decides.
C3_Witness ==
    /\ Called
    /\ StagePasses(1) /\ StagePasses(2)
    /\ ~ StagePasses(3) /\ ~ StagePasses(4) /\ ~ StagePasses(5)
    /\ Res.err = "ErrUntrustedCert"

\* C4: whenever Open returns a plaintext (or no error), the clock was not
\* after Expires, SealerCert parsed and verified against the Opener's pool,
\* and Signature verifies under that certificate's key over
\* Created ++ Expires ++ the plaintext returned.
C4_AuthenticOnSuccess ==
    (Called /\ (Res.err = "nil" \/ ~ NilPayload))
        => /\ Res.err = "nil"
           /\ Len(Res.payload) = 1
           /\ Unexpired
           /\ Trusted
           /\ SignatureOver(Res.payload[1])

\* An accepted Envelope that is not the one sealed: certificate and signature
\* both replaced by another trusted key holder's.
C4_Witness ==
    /\ Called /\ Sealed /\ Msg # Original
    /\ Msg.Header.SealerCert # Original.Header.SealerCert
    /\ Res.err = "nil"

\* C5: with an empty pool, an unexpired Envelope carrying a certificate fails
\* with ErrUntrustedCert whatever its key, payload and signature are; the
\* Envelope as sealed, unexpired, opened by its receiver with a pool that holds
\* only the sealer's issuing root, opens.
C5_TrustGate ==
    /\ (Called /\ OpenerOf.CertPool = {} /\ Unexpired /\ CertOf.ok)
           => (Res.err = "ErrUntrustedCert" /\ NilPayload)
    /\ (/\ Called /\ Untouched /\ Unexpired /\ IntendedReceiver
        /\ OpenerOf.CertPool = {LastSeal.sealer.Cert.Issuer})
           => (Res.err = "nil" /\ Res.payload = << LastSeal.payload >>)

\* An Envelope with a junk signature and an edited key, opened with the empty
\* pool.
C5_Witness ==
    /\ Called /\ Sealed /\ OpenerOf.CertPool = {} /\ Unexpired
    /\ Msg.Header.Signature = BadSignature
    /\ Msg.Header.EncryptedKey # Original.Header.EncryptedKey
    /\ Res.err = "ErrUntrustedCert"

\* The Envelope is the sealed one with one bit of Payload flipped.
OneBitFlipped(i) ==
    /\ Sealed
    /\ Msg.Header = Original.Header
    /\ i \in 1 .. Len(Original.Payload)
    /\ \E b \in 0 .. (BitsPerByte - 1) : Msg.Payload = FlipIn(Original.Payload, i, b)

\* C6 (as the claim states it, for a Sealer with the default TimeToLive): a
\* sealed Envelope with any one bit of Payload flipped, opened by the intended
\* receiver whose pool trusts the sealer, fails with ErrUnableToDecryptPayload.
C6_AsClaimed ==
    (/\ Called /\ IntendedReceiver /\ TrustsSealer
     /\ LastSeal.sealer.TimeToLive = 0
     /\ \E i \in 1 .. Len(Msg.Payload) : OneBitFlipped(i))
        => (Res.err = "ErrUnableToDecryptPayload" /\ NilPayload)

\* C6 (amended): the same, for an Open call made while the clock is not after
\* Expires.
C6_TamperDetection ==
    (/\ Called /\ IntendedReceiver /\ TrustsSealer /\ Unexpired
     /\ \E i \in 1 .. Len(Msg.Payload) : OneBitFlipped(i))
        => (Res.err = "ErrUnableToDecryptPayload" /\ NilPayload)

\* A bit of the nonce prefix flipped.
C6_Witness ==
    /\ Called /\ IntendedReceiver /\ TrustsSealer /\ Unexpired
    /\ \E i \in 1 .. NonceSize : OneBitFlipped(i)
    /\ Res.err = "ErrUnableToDecryptPayload"

\* The Envelope is the sealed one with SealerCert replaced by the encoding of
\* another certificate, which the Opener's pool trusts.
CertSubstituted ==
    /\ Sealed
    /\ Msg = [Original EXCEPT !.Header.SealerCert = Msg.Header.SealerCert]
    /\ Msg.Header.SealerCert # Original.Header.SealerCert
    /\ Trusted

\* C7 (as the claim states it, read for an Open call made while the clock is
\* not after Expires): with SealerCert replaced by a different certificate the
\* Opener's pool trusts, all other fields as sealed, Open by the receiver fails
\* with ErrInvalidSignature.
C7_CertSubstitution ==
    (Called /\ IntendedReceiver /\ CertSubstituted /\ Unexpired)
        => (Res.err = "ErrInvalidSignature")

C9_NoPlaintextOnError ==
    (Called /\ Res.err # "nil") => NilPayload

\* The payload decrypted, the signature did not verify.
C9_Witness ==
    /\ Called /\ Decrypts
    /\ Res.err = "ErrInvalidSignature"
    /\ NilPayload

\* The Envelope is the sealed one with Payload cut to a shorter length.
Truncated ==
    /\ Sealed
    /\ Msg.Header = Original.Header
    /\ \E n \in 0 .. (Len(Original.Payload) - 1) :
           Msg.Payload = SubSeq(Original.Payload, 1, n)

\* C10 (as the claim states it): an unexpired Envelope from a trusted sealer,
\* with its EncryptedKey as sealed and Payload cut to any shorter length,
\* opened by its receiver, returns ErrUnableToDecryptPayload.
C10_Truncation ==
    (Called /\ Unexpired /\ Trusted /\ IntendedReceiver /\ Truncated)
        => (Res.err = "ErrUnableToDecryptPayload")

\* The error values package arcane declares (Err*), and the error time.Parse
\* returns for Expires.
ErrorClasses ==
    {"time.ParseError", "ErrMessageExpired", "ErrUnableToParseSealerCert",
     "ErrUntrustedCert", "ErrUnableToGetEncryptionKey",
     "ErrUnableToDecryptPayload", "ErrInvalidSignature"}

\* C11 (as the claim states it, for the calls that return): every Open call
\* that returns an error returns the Expires parse error or one of the
\* declared Err* values, never another error.
C11_ClosedTaxonomy ==
    (Called /\ Res.err \notin {"nil", "panic"}) => Res.err \in ErrorClasses

\* The Envelope still names the Sealer's certificate, and its Created or its
\* Expires is not the text the Sealer signed.
TimestampChanged ==
    /\ Sealed
    /\ Msg.Header.SealerCert = Original.Header.SealerCert
    /\ \/ Msg.Header.Created # Original.Header.Created
       \/ Msg.Header.Expires # Original.Header.Expires

\* C12 (as the claim states it): an Envelope whose Created or Expires differs
\* from what the Sealer signed is never accepted, whatever else has been
\* edited: Open fails in the expiry-check (parse or expiry) or in a later
\* stage, and returns no payload.
C12_TimestampsBound ==
    (Called /\ TimestampChanged)
        => (Res.err # "nil" /\ NilPayload /\ StageOf(Res.err) \in 1 .. 6)

(*********************** Seal calls, all of them kept ************************)
\* A Sealer seals a payload; a library call may fail.
SealMore ==
    /\ Len(sealed) < MaxSealsKept
    /\ now <= MaxTick
    /\ \E s \in Sealers, p \in Payloads, f \in SealFaults :
         LET r == SealFaulty(s, p, now, drawn, f)
         IN  /\ sealed' = Append(sealed, [sealer |-> s, payload |-> p, at |-> now,
                                          d |-> drawn, err |-> r.err, fault |-> f])
             /\ wire' = r.env
             /\ drawn' = drawn + r.draws
    /\ nseal' = nseal + 1
    /\ UNCHANGED <<now, ntamper, call, procs>>

NextSeal == Tick \/ SealMore

SpecSeal == Init /\ [][NextSeal]_vars

(******************** calls that run concurrently ***************************)
\* A call in progress: its receiver (who), its argument (arg), the statement
\* it is at (pc), its local variables (loc) and, once it has returned, what
\* it returned (res).  Every step of a call is one statement, or a run of
\* statements that touch its local variables only.
NoLocals ==
    [t |-> 0, tv |-> 0, kid |-> 0, nid |-> 0, pid |-> 0, sign |-> BadSignature,
     body |-> << >>, cert |-> NoCert, key |-> NoKey]

SealProc(s, payload) ==
    [kind |-> "Seal", who |-> s, arg |-> payload, pc |-> "clock",
     loc |-> NoLocals, res |-> << >>]

OpenProc(o, message) ==
    [kind |-> "Open", who |-> o, arg |-> message, pc |-> "expiry",
     loc |-> NoLocals, res |-> << >>]

\* The next statement of a Seal call reads rand.Reader.
SealReads(pr) ==
    \/ pr.pc \in {"sign", "key", "nonce"}
    \/ pr.pc = "encrypt" /\ pr.who.ReceiverCert.IsRSA

\* A Seal call whose key lives in a buffer all calls share: the key it
\* encrypts for the receiver is the one read last, by whatever call.
SealStep_SharedKeyBuffer(pr, clock, d) ==
    LET s == pr.who
        l == pr.loc
        expiresStr == IF s.TimeToLive # 0
                      THEN Format(l.t + s.TimeToLive)
                      ELSE Format(l.t + DefaultTTL)
        shared == CHOOSE k \in {procs[q].loc.kid : q \in DOMAIN procs} :
                      \A q \in DOMAIN procs : procs[q].loc.kid <= k
    IN  CASE pr.pc = "clock" -> [pr EXCEPT !.pc = "sign", !.loc.t = clock]
          [] pr.pc = "sign" ->
                [pr EXCEPT !.pc = "key",
                           !.loc.sign = SignPKCS1v15(s.PrivateKey,
                                            Sha256(Format(l.t), expiresStr, pr.arg))]
          [] pr.pc = "key" -> [pr EXCEPT !.pc = "nonce", !.loc.kid = d + 1]
          [] pr.pc = "nonce" ->
                [pr EXCEPT !.pc = "encrypt", !.loc.nid = d + 1,
                           !.loc.body = GcmSeal(SymKey(l.kid, KeySize), d + 1, pr.arg)]
          [] pr.pc = "encrypt" ->
                IF ~ s.ReceiverCert.IsRSA
                THEN [pr EXCEPT !.pc = "done",
                                !.res = << [env |-> << >>,
                                            err |-> "receiver public key was not an rsa key"] >>]
                ELSE [pr EXCEPT !.pc = "done", !.loc.pid = d + 1,
                                !.res = << [env |-> << Envelope(s.Cert.Raw, l.sign,
                                                EncryptPKCS1v15(d + 1, s.ReceiverCert.PublicKey,
                                                                SymKey(shared, KeySize)),
                                                Format(l.t), expiresStr, l.body) >>,
                                            err |-> "nil"] >>]
          [] OTHER -> pr

\* A Seal call that reads the clock source a second time, for Expires, when it
\* builds the Envelope.
SealStep_ClockAgain(pr, clock, d) ==
    LET s == pr.who
        l == pr.loc
        expiresStr == IF s.TimeToLive # 0
                      THEN Format(l.t + s.TimeToLive)
                      ELSE Format(l.t + DefaultTTL)
    IN  CASE pr.pc = "clock" -> [pr EXCEPT !.pc = "sign", !.loc.t = clock]
          [] pr.pc = "sign" ->
                [pr EXCEPT !.pc = "key",
                           !.loc.sign = SignPKCS1v15(s.PrivateKey,
                                            Sha256(Format(l.t), expiresStr, pr.arg))]
          [] pr.pc = "key" -> [pr EXCEPT !.pc = "nonce", !.loc.kid = d + 1]
          [] pr.pc = "nonce" ->
                [pr EXCEPT !.pc = "encrypt", !.loc.nid = d + 1,
                           !.loc.body = GcmSeal(SymKey(l.kid, KeySize), d + 1, pr.arg)]
          [] pr.pc = "encrypt" ->
                IF ~ s.ReceiverCert.IsRSA
                THEN [pr EXCEPT !.pc = "done",
                                !.res = << [env |-> << >>,
                                            err |-> "receiver public key was not an rsa key"] >>]
                ELSE [pr EXCEPT !.pc = "done", !.loc.pid = d + 1,
                                !.res = << [env |-> << Envelope(s.Cert.Raw, l.sign,
                                                EncryptPKCS1v15(d + 1, s.ReceiverCert.PublicKey,
                                                                SymKey(l.kid, KeySize)),
                                                Format(l.t),
                                                IF s.TimeToLive # 0
                                                THEN Format(clock + s.TimeToLive)
                                                ELSE Format(clock + DefaultTTL),
                                                l.body) >>,
                                            err |-> "nil"] >>]
          [] OTHER -> pr

\* Sealer.Seal, statement by statement: pr after its next step, taken when
\* the clock source reads clock and rand.Reader has been read d times.
SealStep(pr, clock, d) ==
    LET s == pr.who
        l == pr.loc
        expiresStr == IF s.TimeToLive # 0
                      THEN Format(l.t + s.TimeToLive)
                      ELSE Format(l.t + DefaultTTL)
    IN  CASE pr.pc = "clock" -> [pr EXCEPT !.pc = "sign", !.loc.t = clock]
          [] pr.pc = "sign" ->
                [pr EXCEPT !.pc = "key",
                           !.loc.sign = SignPKCS1v15(s.PrivateKey,
                                            Sha256(Format(l.t), expiresStr, pr.arg))]
          [] pr.pc = "key" -> [pr EXCEPT !.pc = "nonce", !.loc.kid = d + 1]
          [] pr.pc = "nonce" ->
                [pr EXCEPT !.pc = "encrypt", !.loc.nid = d + 1,
                           !.loc.body = GcmSeal(SymKey(l.kid, KeySize), d + 1, pr.arg)]
          [] pr.pc = "encrypt" ->
                IF ~ s.ReceiverCert.IsRSA
                THEN [pr EXCEPT !.pc = "done",
                                !.res = << [env |-> << >>,
                                            err |-> "receiver public key was not an rsa key"] >>]
                ELSE [pr EXCEPT !.pc = "done", !.loc.pid = d + 1,
                                !.res = << [env |-> << Envelope(s.Cert.Raw, l.sign,
                                                EncryptPKCS1v15(d + 1, s.ReceiverCert.PublicKey,
                                                                SymKey(l.kid, KeySize)),
                                                Format(l.t), expiresStr, l.body) >>,
                                            err |-> "nil"] >>]
          [] OTHER -> pr

\* An Open call that decrypts in place (gcm.Open(ciphertext[:0], ...)): the
\* plaintext overwrites the bytes of message.Payload after the nonce.
OpenStep_InPlace(pr, clock) ==
    LET o == pr.who
        message == pr.arg
        l == pr.loc
        expires == Parse(message.Header.Expires)
        sealerCert == ParseCertificate(message.Header.SealerCert)
        decryptedKey == DecryptPKCS1v15(o.PrivateKey, message.Header.EncryptedKey)
    IN  CASE pr.pc = "expiry" ->
                IF ~ expires.ok
                THEN [pr EXCEPT !.pc = "done", !.loc.t = clock,
                                !.res = << Return(<< >>, "time.ParseError", 1) >>]
                ELSE IF After(clock, expires.t)
                THEN [pr EXCEPT !.pc = "done", !.loc.t = clock,
                                !.res = << Return(<< >>, "ErrMessageExpired", 1) >>]
                ELSE [pr EXCEPT !.pc = "trust", !.loc.t = clock]
          [] pr.pc = "trust" ->
                IF ~ sealerCert.ok
                THEN [pr EXCEPT !.pc = "done",
                                !.res = << Return(<< >>, "ErrUnableToParseSealerCert", 2) >>]
                ELSE IF ~ VerifyAt(sealerCert.cert, o.CertPool, clock)
                THEN [pr EXCEPT !.pc = "done", !.loc.tv = clock,
                                !.res = << Return(<< >>, "ErrUntrustedCert", 3) >>]
                ELSE [pr EXCEPT !.pc = "key", !.loc.tv = clock,
                                !.loc.cert = sealerCert.cert]
          [] pr.pc = "key" ->
                IF ~ decryptedKey.ok
                THEN [pr EXCEPT !.pc = "done",
                                !.res = << Return(<< >>, "ErrUnableToGetEncryptionKey", 4) >>]
                ELSE [pr EXCEPT !.pc = "payload", !.loc.key = decryptedKey.m]
          [] pr.pc = "payload" ->
                LET r == OpenPayload(message, l.cert, l.key)
                    n == Len(message.Payload)
                    out == GcmOpen(l.key, SubSeq(message.Payload, 1, NonceSize),
                                   SubSeq(message.Payload, NonceSize + 1, n)).pt
                IN  [pr EXCEPT !.pc = "done", !.res = << r >>,
                               !.arg.Payload =
                                   IF StageOf(r.err) > 5
                                   THEN SubSeq(@, 1, NonceSize) \o out
                                        \o SubSeq(@, NonceSize + Len(out) + 1, n)
                                   ELSE @]
          [] OTHER -> pr

\* Opener.Open, statement by statement: pr after its next step, taken when
\* the clock source reads clock.
OpenStep(pr, clock) ==
    LET o == pr.who
        message == pr.arg
        l == pr.loc
        expires == Parse(message.Header.Expires)
        sealerCert == ParseCertificate(message.Header.SealerCert)
        decryptedKey == DecryptPKCS1v15(o.PrivateKey, message.Header.EncryptedKey)
    IN  CASE pr.pc = "expiry" ->
                IF ~ expires.ok
                THEN [pr EXCEPT !.pc = "done", !.loc.t = clock,
                                !.res = << Return(<< >>, "time.ParseError", 1) >>]
                ELSE IF After(clock, expires.t)
                THEN [pr EXCEPT !.pc = "done", !.loc.t = clock,
                                !.res = << Return(<< >>, "ErrMessageExpired", 1) >>]
                ELSE [pr EXCEPT !.pc = "trust", !.loc.t = clock]
          [] pr.pc = "trust" ->
                IF ~ sealerCert.ok
                THEN [pr EXCEPT !.pc = "done",
                                !.res = << Return(<< >>, "ErrUnableToParseSealerCert", 2) >>]
                ELSE IF ~ VerifyAt(sealerCert.cert, o.CertPool, clock)
                THEN [pr EXCEPT !.pc = "done", !.loc.tv = clock,
                                !.res = << Return(<< >>, "ErrUntrustedCert", 3) >>]
                ELSE [pr EXCEPT !.pc = "key", !.loc.tv = clock,
                                !.loc.cert = sealerCert.cert]
          [] pr.pc = "key" ->
                IF ~ decryptedKey.ok
                THEN [pr EXCEPT !.pc = "done",
                                !.res = << Return(<< >>, "ErrUnableToGetEncryptionKey", 4) >>]
                ELSE [pr EXCEPT !.pc = "payload", !.loc.key = decryptedKey.m]
          [] pr.pc = "payload" ->
                [pr EXCEPT !.pc = "done",
                           !.res = << OpenPayload(message, l.cert, l.key) >>]
          [] OTHER -> pr

\* The calls that run concurrently: Sealers with a TimeToLive below a second
\* and one with none set, and Openers with the right and with a wrong key on
\* Envelopes sealed earlier: one that expires after a second, the same with
\* its Signature replaced, and one whose sealer certificate is near the end of
\* its validity.
ConcPayload == [i \in 1 .. MaxPayloadLen |-> DataByte(i)]

ConcEnvelopes ==
    LET e == Seal([PrivateKey |-> "k1", Cert |-> signedCert1,
                   ReceiverCert |-> signedCert2, TimeToLive |-> TicksPerSecond],
                  ConcPayload, 0, 0 - 8).env[1]
    IN  {e, [e EXCEPT !.Header.Signature = BadSignature]}
          \cup { Seal(s, ConcPayload, 0, 0 - 4).env[1] : s \in ShortLivedSealers }

ConcCalls ==
    { SealProc(s, ConcPayload) :
        s \in {x \in Sealers :
                  /\ x.Cert = signedCert1
                  /\ \/ x.TimeToLive = 1
                     \/ x.TimeToLive = 0 /\ x.ReceiverCert = signedCert2} }
    \cup { OpenProc(o, m) :
             o \in {x \in Openers : x.CertPool = caCertPool}, m \in ConcEnvelopes }

InitConc ==
    /\ now \in 0 .. MaxTick
    /\ drawn = 0
    /\ nseal = 0
    /\ sealed = << >>
    /\ wire = << >>
    /\ ntamper = 0
    /\ call = << >>
    /\ procs \in [1 .. NProcs -> ConcCalls]

\* One of the Seal calls takes its next step.
SealRun ==
    /\ \E p \in DOMAIN procs :
         /\ procs[p].kind = "Seal"
         /\ procs[p].pc # "done"
         /\ procs' = [procs EXCEPT ![p] = SealStep(procs[p], now, drawn)]
         /\ drawn' = IF SealReads(procs[p]) THEN drawn + 1 ELSE drawn
    /\ UNCHANGED <<now, nseal, sealed, wire, ntamper, call>>

\* One of the Open calls takes its next step.
OpenRun ==
    /\ \E p \in DOMAIN procs :
         /\ procs[p].kind = "Open"
         /\ procs[p].pc # "done"
         /\ procs' = [procs EXCEPT ![p] = OpenStep(procs[p], now)]
    /\ UNCHANGED <<now, drawn, nseal, sealed, wire, ntamper, call>>

NextConc == Tick \/ SealRun \/ OpenRun

SpecConc == InitConc /\ [][NextConc]_vars

(******************* claims about repeated Open calls **********************)
\* Two Open calls by one Opener on one Envelope have ended.
Repeated == Len(call) = MaxOpens /\ call[2].opener = call[1].opener
First == call[1]
Second == call[2]

Returned(i) ==
    SealFaulty(sealed[i].sealer, sealed[i].payload, sealed[i].at, sealed[i].d,
               sealed[i].fault)
Succeeded(i) == sealed[i].err = "nil"
\* The symmetric key the i-th Seal call encrypted the payload with.
KeyUsed(i) == Returned(i).env[1].Header.EncryptedKey.m

\* C14: two successful Seal calls return different Envelopes, and encrypt
\* under different symmetric keys, whatever their Sealers, payloads and clock
\* readings are.
C14_Freshness ==
    \A i, j \in 1 .. Len(sealed) :
        (i < j /\ Succeeded(i) /\ Succeeded(j))
            => /\ Returned(i).env # Returned(j).env
               /\ KeyUsed(i) # KeyUsed(j)

\* Two successful Seal calls of one Sealer on one payload at one clock reading.
C14_Witness ==
    /\ Len(sealed) = 2
    /\ Succeeded(1) /\ Succeeded(2)
    /\ sealed[1].sealer = sealed[2].sealer
    /\ sealed[1].payload = sealed[2].payload
    /\ sealed[1].at = sealed[2].at
    /\ Returned(1).env[1].Header.Signature = Returned(2).env[1].Header.Signature

\* C20: a Seal call returns either an Envelope and no error, or an error and
\* a nil Envelope; it returns an error whenever a library call fails or the
\* receiver's public key is not an RSA key.
C20_AllOrNothing ==
    \A i \in 1 .. Len(sealed) :
        /\ Returned(i).err = "nil" <=> Len(Returned(i).env) = 1
        /\ Returned(i).err # "nil" <=> Returned(i).env = << >>
        /\ (sealed[i].fault # "none" \/ ~ sealed[i].sealer.ReceiverCert.IsRSA)
               => Returned(i).err # "nil"
        /\ i = Len(sealed) => wire = Returned(i).env

\* The last step of Seal, the encryption of the key, fails.
C20_Witness ==
    /\ Len(sealed) >= 1
    /\ sealed[Len(sealed)].fault = "rsa.EncryptPKCS1v15"
    /\ sealed[Len(sealed)].sealer.ReceiverCert.IsRSA
    /\ sealed[Len(sealed)].err = "rsa.EncryptPKCS1v15"
    /\ wire = << >>

\* C15 (as the claim states it): the Expires of every Envelope Seal returns,
\* whatever the Sealer's TimeToLive, is a later time than its Created.
C15_ExpiresAfterCreated ==
    Sealed => After(Parse(Original.Header.Expires).t, Parse(Original.Header.Created).t)

\* The Envelope as sealed with a TimeToLive that is not negative, opened at
\* the clock reading it was sealed at.
OpenedAsSealed ==
    /\ Called /\ Untouched
    /\ LastSeal.sealer.TimeToLive >= 0
    /\ call[1].at = LastSeal.at

\* C18 (as the claim states it): the Envelope of a Sealer whose receiver
\* certificate is its own certificate, opened with that Sealer's private key
\* and a pool that holds the issuing root, opens and returns the payload.
C18_SelfSealed ==
    (/\ OpenedAsSealed
     /\ LastSeal.sealer.ReceiverCert = LastSeal.sealer.Cert
     /\ OpenerOf.PrivateKey = LastSeal.sealer.PrivateKey
     /\ TrustsSealer)
        => (Res.err = "nil" /\ Res.payload = << LastSeal.payload >>)

\* C19 (as the claim states it): a sealer certificate that is not in the
\* Opener's pool and whose issuer is not in it either is rejected with
\* ErrUntrustedCert; with the certificate itself in the pool, Open by the
\* receiver returns the payload.
C19_LeafPinning ==
    /\ (/\ OpenedAsSealed
        /\ LastSeal.sealer.Cert.Raw \notin OpenerOf.CertPool
        /\ LastSeal.sealer.Cert.Issuer \notin OpenerOf.CertPool)
           => (Res.err = "ErrUntrustedCert" /\ NilPayload)
    /\ (/\ OpenedAsSealed
        /\ LastSeal.sealer.Cert.Raw \in OpenerOf.CertPool
        /\ IntendedReceiver)
           => (Res.err = "nil" /\ Res.payload = << LastSeal.payload >>)

(*********************** claims about concurrent calls **********************)
\* Opener.Open run on its own, reading the clock as t at the expiry check and
\* as tv when the certificate is verified.
OpenAlone(o, message, t, tv) ==
    LET expires == Parse(message.Header.Expires)
        sealerCert == ParseCertificate(message.Header.SealerCert)
    IN  IF ~ expires.ok
        THEN Return(<< >>, "time.ParseError", 1)
        ELSE IF After(t, expires.t)
        THEN Return(<< >>, "ErrMessageExpired", 1)
        ELSE IF ~ sealerCert.ok
        THEN Return(<< >>, "ErrUnableToParseSealerCert", 2)
        ELSE IF ~ VerifyAt(sealerCert.cert, o.CertPool, tv)
        THEN Return(<< >>, "ErrUntrustedCert", 3)
        ELSE OpenKey(o, message, sealerCert.cert)

\* What the call pr returns when run on its own with the clock readings and
\* the random bytes it got.
Alone(pr) ==
    IF pr.kind = "Seal"
    THEN LET r == SealDrawn(pr.who, pr.arg, pr.loc.t, pr.loc.kid, pr.loc.nid,
                            pr.loc.pid, "none")
         IN  [env |-> r.env, err |-> r.err]
    ELSE OpenAlone(pr.who, pr.arg, pr.loc.t, pr.loc.tv)

Done(p) == procs[p].pc = "done"

\* C16: whatever the interleaving of the concurrent calls and of the clock,
\* every call that has returned returned what the same call returns on its
\* own with the clock readings and random bytes it got; no two calls got the
\* same random bytes; and a running call has returned nothing.
C16_Isolation ==
    /\ \A p \in DOMAIN procs :
          IF Done(p) THEN procs[p].res = << Alone(procs[p]) >>
                     ELSE procs[p].res = << >>
    /\ \A p, q \in DOMAIN procs :
          (p # q /\ procs[p].loc.kid # 0)
              => procs[p].loc.kid \notin {procs[q].loc.kid, procs[q].loc.nid,
                                          procs[q].loc.pid}

\* Two Seal calls whose reads of the random source interleave, both returned
\* an Envelope.
C16_Witness ==
    /\ Len(procs) = NProcs
    /\ Done(1) /\ Done(2)
    /\ procs[1].kind = "Seal" /\ procs[2].kind = "Seal"
    /\ procs[1].res[1].err = "nil" /\ procs[2].res[1].err = "nil"
    /\ procs[1].loc.kid < procs[2].loc.kid
    /\ procs[2].loc.kid < procs[1].loc.pid

(************************ claims about the stage gates **********************)
\* C21: an Open call that ends with ErrMessageExpired has run the expiry-check
\* and no other stage: no certificate parsing, no trust verification, no key
\* decryption, no payload decryption, no signature verification.
C21_ExpiryGatesCrypto ==
    (Called /\ Res.err = "ErrMessageExpired")
        => (Res.stages = << "expiry-check" >> /\ NilPayload)

\* An expired Envelope whose SealerCert does not parse and whose EncryptedKey
\* does not decrypt: neither was looked at.
C21_Witness ==
    /\ Called
    /\ ExpiresOf.ok /\ After(call[1].at, ExpiresOf.t)
    /\ ~ CertOf.ok /\ ~ KeyOf.ok
    /\ Res = Return(<< >>, "ErrMessageExpired", 1)

\* The sealer certificate of the Envelope parses and fails verification
\* against the Opener's pool at the clock reading of the call.
Unverified == CertOf.ok /\ ~ Verify(CertOf.cert, OpenerOf.CertPool)

\* C22: an Open call on an Envelope whose sealer certificate fails
\* verification never runs the key-decrypt, payload-decrypt or
\* signature-verify stage; when the Envelope is unexpired the call ends with
\* ErrUntrustedCert after the trust-check.
C22_TrustGatesDecryption ==
    (Called /\ Unverified)
        => /\ \A i \in 1 .. Len(Res.stages) :
                 Res.stages[i] \notin {"key-decrypt", "payload-decrypt",
                                       "signature-verify"}
           /\ Unexpired => Res = Return(<< >>, "ErrUntrustedCert", 3)

\* The Envelope as sealed, unexpired, handed to its receiver, whose key would
\* decrypt EncryptedKey; the receiver's pool does not trust the sealer.
C22_Witness ==
    /\ Called /\ Untouched /\ Unexpired /\ IntendedReceiver
    /\ Unverified
    /\ KeyOf.ok
    /\ Res.err = "ErrUntrustedCert"

(********************* claims about the steps of one call *******************)
\* The TimeToLive a Sealer seals with: its own, or five minutes when unset.
TTLOf(s) == IF s.TimeToLive # 0 THEN s.TimeToLive ELSE DefaultTTL

\* C23: whatever the clock source does while a Seal call runs, Created of the
\* Envelope it returns is the text of the one reading the call took in its
\* first statement, and Expires is the text of that same reading plus
\* TimeToLive, or plus five minutes when TimeToLive is zero.
C23_OneClockReading ==
    \A p \in DOMAIN procs :
        (procs[p].kind = "Seal" /\ Done(p) /\ procs[p].res[1].err = "nil")
            => LET h == procs[p].res[1].env[1].Header
                   t == procs[p].loc.t
               IN  /\ h.Created = Format(t)
                   /\ h.Expires = Format(t + TTLOf(procs[p].who))
                   /\ h.Signature.digest = Sha256(Format(t),
                                                  Format(t + TTLOf(procs[p].who)),
                                                  procs[p].arg)

\* A Seal call with no TimeToLive set, during which the clock source moved on
\* by five minutes.
C23_Witness ==
    \E p \in DOMAIN procs :
        /\ procs[p].kind = "Seal" /\ Done(p) /\ procs[p].res[1].err = "nil"
        /\ procs[p].who.TimeToLive = 0
        /\ now >= procs[p].loc.t + DefaultTTL
        /\ procs[p].res[1].env[1].Header.Expires = Format(procs[p].loc.t + DefaultTTL)

\* C25: no step of an Open call changes the Envelope the call was given,
\* whether the call succeeds or fails, and no step of a Seal call changes the
\* payload it was given or its Sealer.
C25_Immutability ==
    [][\A p \in DOMAIN procs :
          procs'[p].arg = procs[p].arg /\ procs'[p].who = procs[p].who]_vars

\* An Open call that returned the plaintext and one that ran up to the
\* signature check and was rejected there, each with its Envelope as given.
C25_Witness ==
    /\ Len(procs) = NProcs
    /\ procs[1].kind = "Open" /\ procs[2].kind = "Open"
    /\ Done(1) /\ Done(2)
    /\ procs[1].res[1].err = "nil" /\ Len(procs[1].res[1].payload) = 1
    /\ procs[2].res[1].err = "ErrInvalidSignature"
    /\ procs[1].arg \in ConcEnvelopes /\ procs[2].arg \in ConcEnvelopes

(************************* claims about single stages ***********************)
\* The Envelope is the sealed one with EncryptedKey replaced by an RSA
\* encryption, for the Opener's key, of another symmetric key of 32 bytes.
KeySubstituted ==
    /\ Sealed
    /\ Msg = [Original EXCEPT !.Header.EncryptedKey = Msg.Header.EncryptedKey]
    /\ KeyOf.ok
    /\ KeyOf.m.len = KeySize
    /\ KeyOf.m # Original.Header.EncryptedKey.m

C26_ExpiryBoundary ==
    (Called /\ ExpiresOf.ok)
        => /\ Res.err = "ErrMessageExpired" <=> call[1].at > ExpiresOf.t
           /\ call[1].at = ExpiresOf.t => Len(Res.stages) > 1

\* The Envelope as sealed, opened by its receiver at the instant of Expires,
\* five minutes after it was sealed.
C26_Witness ==
    /\ Called /\ Untouched /\ IntendedReceiver /\ TrustsSealer
    /\ call[1].at = ExpiresOf.t
    /\ call[1].at > LastSeal.at
    /\ Res.err = "nil"

\* The deadline Seal writes: the clock reading of the Seal call plus the
\* TimeToLive, rounded down to the whole second.
Deadline ==
    ((LastSeal.at + TTLOf(LastSeal.sealer)) \div TicksPerSecond) * TicksPerSecond

\* C27: an Open call on an Envelope that carries the Expires Seal wrote ends
\* with ErrMessageExpired exactly when its clock reading is after the sealing
\* time plus TimeToLive rounded down to the whole second.
C27_SecondTruncation ==
    (Called /\ Sealed /\ Msg.Header.Expires = Original.Header.Expires)
        => (Res.err = "ErrMessageExpired" <=> call[1].at > Deadline)

\* An Envelope sealed with a positive TimeToLive below a second, handed to its
\* receiver at the very clock reading it was sealed at, before sealing time
\* plus TimeToLive: rejected as expired.
C27_Witness ==
    /\ Called /\ Untouched /\ IntendedReceiver /\ TrustsSealer
    /\ LastSeal.sealer.TimeToLive > 0
    /\ LastSeal.sealer.TimeToLive < TicksPerSecond
    /\ call[1].at = LastSeal.at
    /\ call[1].at < LastSeal.at + LastSeal.sealer.TimeToLive
    /\ Res.err = "ErrMessageExpired"

(******************* claims about what the signature covers *****************)
\* The Envelope carries the SealerCert and Signature of the sealed one.
SignedBySealer ==
    /\ Sealed
    /\ Msg.Header.SealerCert = Original.Header.SealerCert
    /\ Msg.Header.Signature = Original.Header.Signature

\* The Envelope is one built by a party that knows the sealed plaintext: the
\* SealerCert, Signature, Created and Expires of the sealed Envelope, and a
\* symmetric key of that party's own, encrypted for the Opener's key, under
\* which the plaintext is encrypted.
Readdressed ==
    /\ Sealed
    /\ Msg = Forged(Original.Header.SealerCert, Original.Header.Signature,
                    OpenerOf.PrivateKey, Original.Header.Created,
                    Original.Header.Expires, LastSeal.payload)

\* C28: an Envelope re-encrypted from the known plaintext for another
\* receiver, with the SealerCert, Signature, Created and Expires of the sealed
\* one, opened by that receiver before Expires with the sealer trusted, opens:
\* Open returns the plaintext, as authenticated from the original sealer.
C28_NoRecipientBinding ==
    (Called /\ Readdressed /\ Unexpired /\ Trusted)
        => (Res.err = "nil" /\ Res.payload = << LastSeal.payload >>)

\* Accepted by an Opener that does not hold the key of the Sealer's receiver
\* certificate.
C28_Witness ==
    /\ Called /\ Readdressed /\ Unexpired /\ Trusted
    /\ ~ IntendedReceiver
    /\ OpenerOf.PrivateKey # Original.Header.EncryptedKey.pub
    /\ Res.err = "nil" /\ Res.payload = << LastSeal.payload >>

\* C29: an Envelope with the SealerCert and Signature of the sealed one passes
\* the signature check, and is accepted, for every Created, Expires and
\* plaintext whose concatenation is the concatenation the Sealer signed,
\* provided it passes the earlier stages (Expires parses and is not before the
\* clock, the sealer is trusted, key and payload decrypt).
C29_UnframedSignature ==
    (/\ Called /\ SignedBySealer
     /\ Unexpired /\ Trusted /\ Decrypts
     /\ Msg.Header.Created \o Msg.Header.Expires \o PlainOf.pt
            = Original.Header.Created \o Original.Header.Expires \o LastSeal.payload)
        => (Res.err = "nil" /\ Res.payload = << PlainOf.pt >>)

\* Accepted under the original signature: Created empty, Expires the text
\* that was Created, and a plaintext that begins with the text that was
\* Expires.
C29_Witness ==
    /\ Called /\ SignedBySealer
    /\ Msg.Header.Created = << >>
    /\ Msg.Header.Expires = Original.Header.Created
    /\ Res.err = "nil"
    /\ Res.payload = << Original.Header.Expires \o LastSeal.payload >>
    /\ Res.payload # << LastSeal.payload >>

\* Created is no timestamp, or a time after the clock reading of the call, or
\* a time after Expires.
CreatedOf == Parse(Msg.Header.Created)
CreatedOdd ==
    \/ ~ CreatedOf.ok
    \/ CreatedOf.t > call[1].at
    \/ CreatedOf.t > ExpiresOf.t

\* C30: an Envelope that passes every stage of Open is accepted whatever its
\* Created is: no timestamp, a time in the future, a time after Expires.
C30_CreatedUnchecked ==
    (/\ Called /\ CreatedOdd
     /\ Unexpired /\ Trusted /\ Decrypts /\ SignatureOver(PlainOf.pt))
        => (Res.err = "nil" /\ Res.payload = << PlainOf.pt >>)

\* Accepted with a Created that is after the clock and after Expires.
C30_Witness ==
    /\ Called
    /\ CreatedOf.ok
    /\ CreatedOf.t > call[1].at
    /\ CreatedOf.t > ExpiresOf.t
    /\ Res.err = "nil" /\ Len(Res.payload) = 1

(********************* claims about the random source ***********************)
\* How often the i-th Seal call took bytes from rand.Reader: the reads of the
\* random source between its start and the start of the next call (or now).
DrawsOf(i) ==
    (IF i < Len(sealed) THEN sealed[i + 1].d ELSE drawn) - sealed[i].d

\* C31 (as the claim states it): every successful Seal call takes bytes from
\* the random source exactly three times.
C31_AsClaimed ==
    \A i \in 1 .. Len(sealed) : Succeeded(i) => DrawsOf(i) = 3

\* C31 (amended): every successful Seal call hands the random source to four
\* library calls, in this order: the signing, the symmetric key, the nonce,
\* and the RSA encryption of the key, whose padding it fills; the key, the
\* nonce and the padding of the Envelope are the second, third and fourth.
C31_EntropyUse ==
    \A i \in 1 .. Len(sealed) :
        Succeeded(i)
            => LET e == Returned(i).env[1]
                   d == sealed[i].d
               IN  /\ DrawsOf(i) = 4
                   /\ e.Header.EncryptedKey.m = SymKey(d + 2, KeySize)
                   /\ SubSeq(e.Payload, 1, NonceSize) = RandBytes(d + 3, NonceSize)
                   /\ e.Header.EncryptedKey.r = d + 4

\* Two successful Seal calls, the second starting where the first left the
\* random source.
C31_Witness ==
    /\ Len(sealed) = 2
    /\ Succeeded(1) /\ Succeeded(2)
    /\ sealed[2].d = sealed[1].d + 4
    /\ drawn = sealed[2].d + 4

(************************* claims about the wire layout *********************)
\* C32: the Payload of every Envelope Seal returns (the Envelope on the wire,
\* before any edit) is the 12 bytes of the
\* nonce followed by the AES-GCM ciphertext of the payload with its tag, as
\* long as the payload plus 16 bytes, and holds no byte of the plaintext;
\* SealerCert is the Raw encoding of the Sealer's certificate; and Open,
\* splitting Payload after 12 bytes, has the nonce the Sealer used and
\* decrypts the payload.
C32_WireLayout ==
    /\ (Sealed /\ ntamper = 0)
          => LET p == LastSeal.payload
                 nid == LastSeal.d + 3
                 h == wire[1].Header
                 pl == wire[1].Payload
             IN  /\ Len(pl) = NonceSize + Len(p) + TagSize
                 /\ SubSeq(pl, 1, NonceSize) = RandBytes(nid, NonceSize)
                 /\ pl = GcmSeal(h.EncryptedKey.m, nid, p)
                 /\ \A i \in 1 .. Len(pl) :
                        /\ pl[i].k \in {"rand", "gcm"}
                        /\ \A j \in 1 .. Len(p) : pl[i] # p[j]
                 /\ h.SealerCert = LastSeal.sealer.Cert.Raw
    /\ (Called /\ Untouched /\ Unexpired /\ Trusted /\ IntendedReceiver)
          => /\ Res.err = "nil"
             /\ Res.payload = << LastSeal.payload >>

\* An Envelope with a payload of the greatest length, as sealed, opened by
\* its receiver.
C32_Witness ==
    /\ Called /\ Untouched /\ Unexpired /\ Trusted /\ IntendedReceiver
    /\ Len(LastSeal.payload) = MaxPayloadLen
    /\ Len(Msg.Payload) = NonceSize + MaxPayloadLen + TagSize
    /\ Res.payload = << LastSeal.payload >>
====
